---- MODULE Spec2Model ----
\* VoiceNoteRecorder (src/src/components/VoiceNoteRecorder.tsx): the note
\* composer's state, the recognition adapter it consumes, and the two-step
\* persistence of saveNote, as a state machine.
\*
\* Text is a sequence of tokens: " " is a whitespace character, every other
\* token is a run of non-whitespace characters.  The empty string is << >>.
EXTENDS Naturals, Sequences, FiniteSets, TLC

VARIABLES
    \* component state (useState, lines 21-25)
    currentTranscript, savedNotes, saving, noteType, showSuccess,
    \* props (lines 15-20); onNoteSaved is TRUE when the callback is supplied
    consultationId, doctorId, onNoteSaved,
    \* recognition adapter (useVoiceRecognition, lines 27-36)
    isListening, transcript, interimTranscript, requests,
    \* remote store: the rows of the two tables, in the order written
    consultation_notes, voice_transcriptions,
    \* invocations of saveNote, pending setTimeout callbacks, the last alert,
    \* the notes handed to onNoteSaved
    calls, timers, notice, noteSavedCalls

composer == <<currentTranscript, savedNotes, saving, noteType, showSuccess>>
props    == <<consultationId, doctorId, onNoteSaved>>
adapter  == <<isListening, transcript, interimTranscript, requests>>
store    == <<consultation_notes, voice_transcriptions>>
effects  == <<calls, timers, notice, noteSavedCalls>>
vars     == <<composer, props, adapter, store, effects>>

-----------------------------------------------------------------------------
\* Bounds

MaxSaves   == 2   \* invocations of saveNote
MaxBuf     == 2   \* tokens in the adapter's cumulative transcript
MaxPending == 2   \* start/stop requests the platform has not yet completed

-----------------------------------------------------------------------------
\* Values

EMPTY == << >>
SP    == " "

NoteTypes == {"general", "symptoms", "diagnosis", "prescription", "follow_up"}

ConsultationIds == {"c1"}
DoctorIds       == {"d1"}

\* Texts the platform recognises in one cycle: a word after a pause, and a
\* pause alone.
Texts == {<<SP, "w">>, <<SP>>}

\* Texts the platform reports as not yet final.
InterimTexts == {<<SP, "w">>}

EmptyNotice  == "Please record some content before saving."
FailedNotice == "Failed to save note. Please try again."

voice_confidence_score == 95   \* 0.95, in hundredths
confidence_score       == 95   \* 0.95, in hundredths

-----------------------------------------------------------------------------
\* String.prototype.trim

RECURSIVE TrimStart(_)
TrimStart(s) ==
    IF s = EMPTY THEN EMPTY
    ELSE IF Head(s) = SP THEN TrimStart(Tail(s)) ELSE s

RECURSIVE TrimEnd(_)
TrimEnd(s) ==
    IF s = EMPTY THEN EMPTY
    ELSE IF s[Len(s)] = SP THEN TrimEnd(SubSeq(s, 1, Len(s) - 1)) ELSE s

Trim(s) == TrimEnd(TrimStart(s))

\* !currentTranscript.trim()   (line 57)
IsBlankUntrimmed(s) == s = EMPTY
IsBlank(s) == Trim(s) = EMPTY

-----------------------------------------------------------------------------
\* The render closure a saveNote invocation runs in, and its progress.
\* An invocation that returns at line 59 leaves no closure behind.
\*   pc: "note" (awaiting the insert of line 64), "log" (awaiting the insert
\*   of line 80), "saved" (returned after line 99), "failed" (returned
\*   through the catch block).
\*   issued: the inserts this invocation has sent, in order;
\*   data: the record the store returned for the note (NoData before);
\*   logged: whether the store wrote this invocation's log row.

NoData == [id |-> 0]

Closure(pc) ==
    [pc |-> pc, currentTranscript |-> currentTranscript, noteType |-> noteType,
     consultationId |-> consultationId, doctorId |-> doctorId,
     issued |-> EMPTY, data |-> NoData, logged |-> FALSE]

\* .insert({...}) of lines 66-73
NoteInsert(f) ==
    [consultation_id |-> f.consultationId, doctor_id |-> f.doctorId,
     note_type |-> f.noteType, content |-> Trim(f.currentTranscript),
     is_voice_generated |-> TRUE,
     voice_confidence_score |-> voice_confidence_score]

\* .insert({...}) of lines 82-89
LogInsertUntrimmed(f) ==
    [consultation_id |-> f.consultationId, doctor_id |-> f.doctorId,
     transcribed_text |-> f.currentTranscript,
     confidence_score |-> confidence_score,
     language_code |-> "en-US", processing_status |-> "completed"]
LogInsert(f) ==
    [consultation_id |-> f.consultationId, doctor_id |-> f.doctorId,
     transcribed_text |-> Trim(f.currentTranscript),
     confidence_score |-> confidence_score,
     language_code |-> "en-US", processing_status |-> "completed"]

\* supabase.from(table).insert(row)
Insert(table, row) == [table |-> table, row |-> row]

-----------------------------------------------------------------------------
\* useEffect(() => { if (transcript) setCurrentTranscript(transcript) },
\* [transcript])   (lines 50-54): runs after a render in which transcript
\* differs from the previous render's.

TranscriptEffectKeepsBuffer(buf, t) == buf
TranscriptEffect(buf, t) == IF t # EMPTY THEN t ELSE buf

AfterRender(buf, oldT, newT) ==
    IF newT # oldT THEN TranscriptEffect(buf, newT) ELSE buf

-----------------------------------------------------------------------------
\* Recognition adapter.  start and stop are fire-and-forget requests that the
\* platform completes later, in order; reset clears both texts.

\* the adapter's cumulative transcript after a final result
Cumulative(t, text) == t \o text

StartListening == requests' = Append(requests, "start")
StopListening  == requests' = Append(requests, "stop")

\* the value of transcript and interimTranscript after resetTranscript()
ResetTranscript == EMPTY

PlatformCompletes ==
    /\ requests # EMPTY
    /\ isListening' = (Head(requests) = "start")
    /\ requests' = Tail(requests)
    /\ UNCHANGED <<transcript, interimTranscript>>
    /\ UNCHANGED <<composer, props, store, effects>>

\* A recognition cycle that delivers (text, isFinal = false).
InterimResult(text) ==
    /\ isListening
    /\ interimTranscript' = text
    /\ UNCHANGED <<isListening, transcript, requests>>
    /\ UNCHANGED <<composer, props, store, effects>>

\* A recognition cycle that delivers (text, isFinal = true): the adapter
\* extends its cumulative transcript, the component's onResult appends
\* (line 42), and the effect of lines 50-54 runs on the next render.
FinalResult(text) ==
    /\ isListening
    /\ Len(Cumulative(transcript, text)) <= MaxBuf
    /\ transcript' = Cumulative(transcript, text)
    /\ interimTranscript' = EMPTY
    /\ currentTranscript' =
           AfterRender(currentTranscript \o <<SP>> \o text, transcript, transcript')
    /\ UNCHANGED <<isListening, requests>>
    /\ UNCHANGED <<savedNotes, saving, noteType, showSuccess>>
    /\ UNCHANGED <<props, store, effects>>

-----------------------------------------------------------------------------
\* Note composer

\* handleToggleRecording (lines 114-120)
handleToggleRecordingReversed ==
    /\ Len(requests) < MaxPending
    /\ IF isListening THEN StartListening ELSE StopListening
    /\ UNCHANGED <<isListening, transcript, interimTranscript>>
    /\ UNCHANGED <<composer, props, store, effects>>
handleToggleRecording ==
    /\ Len(requests) < MaxPending
    /\ IF isListening THEN StopListening ELSE StartListening
    /\ UNCHANGED <<isListening, transcript, interimTranscript>>
    /\ UNCHANGED <<composer, props, store, effects>>

\* clearTranscript (lines 109-112)
clearTranscript ==
    /\ transcript' = ResetTranscript
    /\ interimTranscript' = ResetTranscript
    /\ currentTranscript' = AfterRender(EMPTY, transcript, transcript')
    /\ UNCHANGED <<isListening, requests>>
    /\ UNCHANGED <<savedNotes, saving, noteType, showSuccess>>
    /\ UNCHANGED <<props, store, effects>>

\* <select onChange>   (line 144)
SetNoteType(t) ==
    /\ noteType' = t
    /\ UNCHANGED <<currentTranscript, savedNotes, saving, showSuccess>>
    /\ UNCHANGED <<props, adapter, store, effects>>

\* Quick Actions (lines 260-299): the literal each button appends and the
\* category it selects.
QuickActions ==
    { [literal |-> <<SP, "Patient", SP, "presents", SP, "with", SP>>, noteType |-> "symptoms"],
      [literal |-> <<SP, "Diagnosis:", SP>>,                    noteType |-> "diagnosis"],
      [literal |-> <<SP, "Prescribed:", SP>>,                   noteType |-> "prescription"],
      [literal |-> <<SP, "Follow-up", SP, "in", SP>>,            noteType |-> "follow_up"] }

\* prev => prev + literal
Prefill(prev, q) == prev \o q.literal

QuickActionKeepsType(q) ==
    /\ Len(currentTranscript) <= MaxBuf
    /\ currentTranscript' = Prefill(currentTranscript, q)
    /\ UNCHANGED <<noteType, savedNotes, saving, showSuccess>>
    /\ UNCHANGED <<props, adapter, store, effects>>
QuickAction(q) ==
    /\ Len(currentTranscript) <= MaxBuf
    /\ currentTranscript' = Prefill(currentTranscript, q)
    /\ noteType' = q.noteType
    /\ UNCHANGED <<savedNotes, saving, showSuccess>>
    /\ UNCHANGED <<props, adapter, store, effects>>

-----------------------------------------------------------------------------
\* saveNote (lines 56-107).  Each await is a point where other events run.

\* lines 57-73: the guard, setSaving(true) and the first insert
saveNote ==
    /\ IF IsBlank(currentTranscript)
       THEN /\ notice' = EmptyNotice
            /\ UNCHANGED <<saving, calls>>
       ELSE /\ Len(calls) < MaxSaves
            /\ saving' = TRUE
            /\ calls' = Append(calls,
                   [Closure("note") EXCEPT !.issued =
                       <<Insert("consultation_notes", NoteInsert(Closure("note")))>>])
            /\ UNCHANGED notice
    /\ UNCHANGED <<currentTranscript, savedNotes, noteType, showSuccess>>
    /\ UNCHANGED <<consultation_notes, voice_transcriptions>>
    /\ UNCHANGED <<timers, noteSavedCalls>>
    /\ UNCHANGED <<props, adapter>>

\* lines 101-106: catch, then finally
CatchFinallyClearing(s) ==
    /\ notice' = FailedNotice
    /\ saving' = FALSE
    /\ currentTranscript' = EMPTY
    /\ calls' = [calls EXCEPT ![s].pc = "failed"]
    /\ UNCHANGED <<savedNotes, noteType, showSuccess>>
    /\ UNCHANGED <<timers, noteSavedCalls>>
    /\ UNCHANGED <<props, adapter>>
CatchFinally(s) ==
    /\ notice' = FailedNotice
    /\ saving' = FALSE
    /\ calls' = [calls EXCEPT ![s].pc = "failed"]
    /\ UNCHANGED <<currentTranscript, savedNotes, noteType, showSuccess>>
    /\ UNCHANGED <<timers, noteSavedCalls>>
    /\ UNCHANGED <<props, adapter>>

\* The first insert resolves with the created record (lines 64-77), and the
\* second insert is issued (lines 80-89).
NoteInsertOk(s) ==
    /\ s \in DOMAIN calls
    /\ calls[s].pc = "note"
    /\ LET data == [id |-> Len(consultation_notes) + 1] @@ NoteInsert(calls[s])
       IN /\ consultation_notes' = Append(consultation_notes, data)
          /\ calls' = [calls EXCEPT ![s].pc = "log", ![s].data = data,
                                    ![s].issued = Append(@,
                                        Insert("voice_transcriptions", LogInsert(calls[s])))]
    /\ UNCHANGED voice_transcriptions
    /\ UNCHANGED <<timers, notice, noteSavedCalls>>
    /\ UNCHANGED <<composer, props, adapter>>

\* The first insert resolves with an error (line 77 throws) or rejects.
NoteInsertFails(s) ==
    /\ s \in DOMAIN calls
    /\ calls[s].pc = "note"
    /\ CatchFinally(s)
    /\ UNCHANGED store

\* lines 91-99, then finally (line 105)
AppendNote(data, list) == list \o <<data>>
PrependNote(data, list) == <<data>> \o list

Completion(s) ==
    /\ savedNotes' = PrependNote(calls[s].data, savedNotes)
    /\ transcript' = ResetTranscript
    /\ interimTranscript' = ResetTranscript
    /\ currentTranscript' = AfterRender(EMPTY, transcript, transcript')
    /\ noteSavedCalls' =
          IF onNoteSaved THEN Append(noteSavedCalls, calls[s].data) ELSE noteSavedCalls
    /\ showSuccess' = TRUE
    /\ timers' = Append(timers, s)
    /\ saving' = FALSE
    /\ UNCHANGED <<noteType, notice, isListening, requests, props>>
    /\ UNCHANGED consultation_notes

\* The second insert resolves and the row was written.
LogInsertOk(s) ==
    /\ s \in DOMAIN calls
    /\ calls[s].pc = "log"
    /\ voice_transcriptions' = Append(voice_transcriptions,
           [id |-> Len(voice_transcriptions) + 1] @@ LogInsert(calls[s]))
    /\ calls' = [calls EXCEPT ![s].pc = "saved", ![s].logged = TRUE]
    /\ Completion(s)

\* The second insert resolves with an error: the result is not read.
LogInsertError(s) ==
    /\ s \in DOMAIN calls
    /\ calls[s].pc = "log"
    /\ calls' = [calls EXCEPT ![s].pc = "saved"]
    /\ UNCHANGED voice_transcriptions
    /\ Completion(s)

\* The second insert rejects: the await of line 80 throws into the catch.
LogInsertRejects(s) ==
    /\ s \in DOMAIN calls
    /\ calls[s].pc = "log"
    /\ CatchFinally(s)
    /\ UNCHANGED store

\* setTimeout(() => setShowSuccess(false), 3000)   (line 99): equal delays
\* expire in the order they were set.
TimerFires ==
    /\ timers # EMPTY
    /\ timers' = Tail(timers)
    /\ showSuccess' = FALSE
    /\ UNCHANGED <<currentTranscript, savedNotes, saving, noteType>>
    /\ UNCHANGED <<calls, notice, noteSavedCalls>>
    /\ UNCHANGED <<props, adapter, store>>

-----------------------------------------------------------------------------
\* Specifications

\* The component after mounting, with the adapter idle or recording.
Mounted(listening) ==
    /\ currentTranscript = EMPTY
    /\ savedNotes = EMPTY
    /\ saving = FALSE
    /\ noteType = "general"
    /\ showSuccess = FALSE
    /\ consultationId \in ConsultationIds
    /\ doctorId \in DoctorIds
    /\ onNoteSaved \in BOOLEAN
    /\ isListening = listening
    /\ transcript = EMPTY
    /\ interimTranscript = EMPTY
    /\ requests = EMPTY
    /\ consultation_notes = EMPTY
    /\ voice_transcriptions = EMPTY
    /\ calls = EMPTY
    /\ timers = EMPTY
    /\ notice = ""
    /\ noteSavedCalls = EMPTY

Init == Mounted(FALSE)

Toggling ==
    \/ handleToggleRecording
    \/ PlatformCompletes

Recognition ==
    \/ \E text \in InterimTexts : InterimResult(text)
    \/ \E text \in Texts : FinalResult(text)

Editing ==
    \/ clearTranscript
    \/ \E t \in NoteTypes : SetNoteType(t)
    \/ \E q \in QuickActions : QuickAction(q)

\* The Save button (lines 237-245) is disabled while saving, so invocations
\* do not overlap.  A blank buffer disables it too; lines 57-60 serve a
\* caller that invokes saveNote without the button, which is kept possible.
SaveRequested ==
    /\ ~saving
    /\ saveNote

Saving ==
    \/ SaveRequested
    \/ \E s \in 1..MaxSaves : NoteInsertOk(s)
    \/ \E s \in 1..MaxSaves : NoteInsertFails(s)
    \/ \E s \in 1..MaxSaves : LogInsertOk(s)
    \/ \E s \in 1..MaxSaves : LogInsertError(s)
    \/ \E s \in 1..MaxSaves : LogInsertRejects(s)
    \/ TimerFires

Next == Toggling \/ Recognition \/ Editing \/ Saving

Spec == Init /\ [][Next]_vars

\* The composer and the adapter, without persistence.
NextCompose == Toggling \/ Recognition \/ Editing

SpecCompose == Init /\ [][NextCompose]_vars

\* Persistence while the adapter is recording: the state SpecCompose reaches
\* by handleToggleRecording and PlatformCompletes, from which the buffer is
\* fed by recognition results and emptied by clearTranscript.
InitRecording == Mounted(TRUE)

NextSave == Recognition \/ clearTranscript \/ Saving

SpecSave == InitRecording /\ [][NextSave]_vars

\* The banner's timer is a setTimeout: once set it fires.
SpecSaveFair == SpecSave /\ WF_vars(TimerFires)

-----------------------------------------------------------------------------
\* Vocabulary of the properties

\* s is empty or contains only whitespace
OnlyWhitespace(s) == \A i \in 1..Len(s) : s[i] = SP

Spaces(n) == [i \in 1..n |-> SP]

\* c is raw without its leading and trailing whitespace
IsTrimmed(c, raw) ==
    /\ c # EMPTY
    /\ c[1] # SP
    /\ c[Len(c)] # SP
    /\ \E i, j \in 0..Len(raw) : raw = Spaces(i) \o c \o Spaces(j)

Returned(f) == f.pc \in {"saved", "failed"}

NoteInsertsOf(f) == SelectSeq(f.issued, LAMBDA r : r.table = "consultation_notes")
LogInsertsOf(f)  == SelectSeq(f.issued, LAMBDA r : r.table = "voice_transcriptions")

\* both inserts of f carry the same ids, content and score
Matching(f) ==
    LET n == f.issued[1].row
        l == f.issued[2].row
    IN /\ n.consultation_id = f.consultationId
       /\ l.consultation_id = f.consultationId
       /\ n.doctor_id = f.doctorId
       /\ l.doctor_id = f.doctorId
       /\ IsTrimmed(n.content, f.currentTranscript)
       /\ l.transcribed_text = n.content
       /\ n.voice_confidence_score = 95
       /\ l.confidence_score = 95

NoteThenLog(f) ==
    /\ Len(f.issued) = 2
    /\ f.issued[1].table = "consultation_notes"
    /\ f.issued[2].table = "voice_transcriptions"
    /\ Matching(f)

-----------------------------------------------------------------------------
\* C1 as stated: every invocation of saveNote on a buffer that is not blank
\* issues exactly one consultation_notes insert and then exactly one
\* voice_transcriptions insert, with matching ids, content and score.
C1_EverySaveWritesBoth ==
    \A s \in DOMAIN calls : Returned(calls[s]) => NoteThenLog(calls[s])

\* C1, amended: every invocation of saveNote on a buffer that is not blank
\* issues exactly one consultation_notes insert, first; it issues exactly
\* one voice_transcriptions insert if and only if the first insert has
\* resolved with a record (none before that, none when the first insert
\* fails); when both are issued they carry the same consultation id, author
\* id, trimmed content of the buffer at invocation, and the score 0.95.
C1_NoteThenLogWhenNoteSucceeds ==
    \A s \in DOMAIN calls :
        LET f == calls[s]
        IN /\ Len(NoteInsertsOf(f)) = 1
           /\ f.issued[1].table = "consultation_notes"
           /\ IsTrimmed(f.issued[1].row.content, f.currentTranscript)
           /\ Len(LogInsertsOf(f)) = (IF f.data # NoData THEN 1 ELSE 0)
           /\ f.data # NoData => NoteThenLog(f)
           /\ f.pc = "note" => f.data = NoData
           /\ f.pc \in {"log", "saved"} => f.data # NoData

C1_Witness ==
    \E s \in DOMAIN calls :
        /\ calls[s].pc = "saved"
        /\ NoteThenLog(calls[s])
        /\ calls[s].currentTranscript # calls[s].issued[1].row.content

-----------------------------------------------------------------------------
\* C2: saveNote on an empty or whitespace-only buffer starts no invocation
\* that writes, changes nothing but the notice, and shows the notice.
C2_BlankSaveOnlyNotifies ==
    [][ OnlyWhitespace(currentTranscript) =>
          /\ Len(calls') = Len(calls)
          /\ saveNote =>
                /\ notice' = EmptyNotice
                /\ UNCHANGED <<composer, props, adapter, store>>
                /\ UNCHANGED <<calls, timers, noteSavedCalls>> ]_vars

C2_Witness ==
    /\ notice = EmptyNotice
    /\ currentTranscript # EMPTY
    /\ OnlyWhitespace(currentTranscript)
    /\ calls = EMPTY
    /\ consultation_notes = EMPTY

-----------------------------------------------------------------------------
\* C3: when the consultation_notes insert fails, the buffer is unchanged, no
\* voice_transcriptions insert is issued, the adapter is not reset,
\* onNoteSaved is not called, showSuccess is not set, and saving is false.
Step1Fails(s) ==
    /\ s \in DOMAIN calls
    /\ calls[s].pc = "note"
    /\ calls'[s].pc = "failed"

C3_Step1FailureKeepsDraft ==
    [][ \A s \in 1..MaxSaves : Step1Fails(s) =>
          /\ currentTranscript' = currentTranscript
          /\ LogInsertsOf(calls'[s]) = EMPTY
          /\ UNCHANGED <<transcript, interimTranscript>>
          /\ noteSavedCalls' = noteSavedCalls
          /\ savedNotes' = savedNotes
          /\ showSuccess' = showSuccess
          /\ timers' = timers
          /\ saving' = FALSE
          /\ notice' = FailedNotice
          /\ UNCHANGED store ]_vars

C3_Witness ==
    \E s \in DOMAIN calls :
        /\ calls[s].pc = "failed"
        /\ calls[s].data = NoData
        /\ currentTranscript = calls[s].currentTranscript
        /\ transcript # EMPTY
        /\ interimTranscript # EMPTY
        /\ ~saving
        /\ ~showSuccess

-----------------------------------------------------------------------------
\* C4: when saveNote succeeds the buffer, the adapter's transcript and its
\* interim text are empty, the created note is at the head of savedNotes and
\* was handed once to onNoteSaved when supplied, showSuccess is true and
\* saving is false; and showSuccess is later false again.
SaveSucceeds(s) ==
    /\ s \in DOMAIN calls
    /\ calls[s].pc = "log"
    /\ calls'[s].pc = "saved"

C4_SuccessfulSaveResets ==
    /\ [][ \A s \in 1..MaxSaves : SaveSucceeds(s) =>
             /\ currentTranscript' = EMPTY
             /\ transcript' = EMPTY
             /\ interimTranscript' = EMPTY
             /\ calls[s].data \in {consultation_notes[i] : i \in DOMAIN consultation_notes}
             /\ savedNotes' = <<calls[s].data>> \o savedNotes
             /\ noteSavedCalls' =
                   IF onNoteSaved THEN noteSavedCalls \o <<calls[s].data>>
                                  ELSE noteSavedCalls
             /\ showSuccess' = TRUE
             /\ saving' = FALSE ]_vars
    /\ (showSuccess ~> ~showSuccess)

C4_Witness ==
    /\ Len(savedNotes) = 2
    /\ savedNotes[1].id = 2
    /\ Len(noteSavedCalls) = 2
    /\ calls[2].pc = "saved"
    /\ currentTranscript = EMPTY
    /\ transcript = EMPTY
    /\ ~saving
    /\ ~showSuccess
    /\ timers = EMPTY

-----------------------------------------------------------------------------
\* C5 as stated: an invocation whose consultation_notes insert succeeded
\* ends as a success however its voice_transcriptions insert fails: no
\* failure notice, the note kept, handed to savedNotes and onNoteSaved.
C5_LogFailureNeverSurfaced ==
    \A s \in DOMAIN calls :
        (Returned(calls[s]) /\ calls[s].data # NoData /\ ~calls[s].logged) =>
            /\ calls[s].pc = "saved"
            /\ \E i \in DOMAIN savedNotes : savedNotes[i] = calls[s].data
            /\ \E i \in DOMAIN consultation_notes : consultation_notes[i] = calls[s].data

-----------------------------------------------------------------------------
\* C9 as stated: every voice_transcriptions row belongs to exactly one
\* invocation whose consultation_notes row, with the same ids and content,
\* was written before it; and every consultation_notes row belongs to an
\* invocation that reported success (or has not returned yet).
C9_StoreMatchesReportedSaves ==
    /\ Len(voice_transcriptions) =
          Cardinality({s \in DOMAIN calls : calls[s].logged})
    /\ \A s \in DOMAIN calls : calls[s].logged =>
          /\ calls[s].data # NoData
          /\ NoteThenLog(calls[s])
          /\ \E i \in DOMAIN voice_transcriptions :
                /\ voice_transcriptions[i].transcribed_text = calls[s].data.content
                /\ voice_transcriptions[i].consultation_id = calls[s].data.consultation_id
                /\ voice_transcriptions[i].doctor_id = calls[s].data.doctor_id
    /\ \A i \in DOMAIN consultation_notes :
          \E s \in DOMAIN calls :
              /\ calls[s].data = consultation_notes[i]
              /\ calls[s].pc \in {"log", "saved"}
              /\ calls[s].pc = "saved" =>
                    \E j \in DOMAIN savedNotes : savedNotes[j] = consultation_notes[i]

-----------------------------------------------------------------------------
\* C10 as stated: while the timer of the most recent successful save is
\* pending, showSuccess is true.
C10_BannerLastsFullWindow ==
    timers # EMPTY => showSuccess

-----------------------------------------------------------------------------
\* C6: whenever the adapter's transcript changes, the buffer afterwards
\* equals the new transcript, whatever was appended or prefilled before.
C6_SnapshotOverwritesBuffer ==
    [][ transcript' # transcript => currentTranscript' = transcript' ]_vars

C6_Witness ==
    /\ transcript = <<SP, "w">>
    /\ currentTranscript = transcript
    /\ noteType = "diagnosis"

-----------------------------------------------------------------------------
\* C7: handleToggleRecording asks the adapter to stop when listening and to
\* start otherwise, and changes nothing else; a completed start leaves the
\* adapter listening, a completed stop not listening, and a start while
\* listening or a stop while not listening changes nothing.
Requested == Len(requests') > Len(requests)
Completed == Len(requests') < Len(requests)

C7_ToggleStartsOrStops ==
    /\ [][ Requested =>
             /\ requests' = requests \o <<IF isListening THEN "stop" ELSE "start">>
             /\ UNCHANGED <<isListening, transcript, interimTranscript>>
             /\ UNCHANGED composer ]_vars
    /\ [][ Completed =>
             /\ Head(requests) = "start" => isListening'
             /\ Head(requests) = "stop" => ~isListening'
             /\ (Head(requests) = "start") = isListening =>
                   UNCHANGED <<isListening, transcript, interimTranscript, composer>> ]_vars

C7_Witness ==
    /\ ~isListening
    /\ requests = EMPTY
    /\ transcript # EMPTY

-----------------------------------------------------------------------------
\* C8: a quick action sets the buffer to the previous buffer, a space and
\* its snippet, selects its category, and leaves the adapter, saving and
\* showSuccess alone.
Snippets ==
    { [snippet |-> <<"Patient", SP, "presents", SP, "with", SP>>, category |-> "symptoms"],
      [snippet |-> <<"Diagnosis:", SP>>,                          category |-> "diagnosis"],
      [snippet |-> <<"Prescribed:", SP>>,                         category |-> "prescription"],
      [snippet |-> <<"Follow-up", SP, "in", SP>>,                 category |-> "follow_up"] }

C8_QuickActionAppendsAndSelects ==
    [][ \A q \in QuickActions : QuickAction(q) =>
          /\ \E c \in Snippets :
                /\ c.category = q.noteType
                /\ currentTranscript' = currentTranscript \o <<SP>> \o c.snippet
                /\ noteType' = c.category
          /\ q.noteType = "diagnosis" =>
                Prefill(<<"Patient", SP, "reports", SP, "headache">>, q) =
                    <<"Patient", SP, "reports", SP, "headache", SP, "Diagnosis:", SP>>
          /\ UNCHANGED <<isListening, transcript, interimTranscript, requests>>
          /\ UNCHANGED <<saving, showSuccess, savedNotes>> ]_vars

C8_Witness ==
    /\ transcript = <<SP, "w">>
    /\ currentTranscript = <<SP, "w", SP, "Diagnosis:", SP>>
    /\ noteType = "diagnosis"

====
